---- MODULE Spec2Model ----
(***************************************************************************)
(* UrbanFlow (urbanflow/core.py): bounded enumeration of simple paths in   *)
(* a directed multigraph, path / edge usage counting and the edge-by-OD    *)
(* incidence matrix.                                                       *)
(*                                                                         *)
(* A Python str is a sequence of one-character strings, so that join,      *)
(* split and the f-string keys are computed on characters.  A Python dict  *)
(* is a record [keys, val]: keys in insertion order, val the mapping.      *)
(***************************************************************************)
EXTENDS Integers, Sequences, FiniteSets, TLC

VARIABLES pc, edges, graph, start, end, max_path_length, max_paths,
          paths, warnings, arg, error, enumerated, all_paths,
          path_repetitions, edge_repetitions, od_incidence, di_graph

vars == <<pc, edges, graph, start, end, max_path_length, max_paths,
          paths, warnings, arg, error, enumerated, all_paths,
          path_repetitions, edge_repetitions, od_incidence, di_graph>>

\* ---------------------------------------------------------------- bounds
MaxEdges == 3
MaxLen == 3
MaxPaths == 3
MaxPathCount == 2
MaxPathNodes == 3

\* ------------------------------------------------------ program constants
DefaultMaxPaths == 1000
VolumeThreshold == 10000

\* --------------------------------------------------------------- strings
A == <<"a">>
AA == <<"a", "-", ">", "a">>
ASA == <<"a", " ", "-", ">", " ", "a">>
PathNodes == {A, AA, ASA}

N1 == <<"1">>
N2 == <<"2">>
N3 == <<"3">>
GraphNodes == {N1, N2, N3}

Delimiter == <<" ", "-", ">", " ">>
Arrow == <<"-", ">">>

\* --------------------------------------------------------------- dicts
EmptyDict == [keys |-> <<>>, val |-> <<>>]

DictHas(d, k) == k \in DOMAIN d.val

DictGet(d, k, default) == IF DictHas(d, k) THEN d.val[k] ELSE default

DictSet(d, k, v) ==
    [keys |-> IF DictHas(d, k) THEN d.keys ELSE Append(d.keys, k),
     val  |-> [x \in (DOMAIN d.val) \cup {k} |-> IF x = k THEN v ELSE d.val[x]]]

SeqHas(s, x) == \E i \in 1..Len(s) : s[i] = x

\* ------------------------------------------------- load_graph_from_edges
\* A cell of the edge table is a Python str or int; str() of an int is its
\* decimal form, str() of a str is the string itself.
StrCell(s) == [type |-> "str", int |-> 0, str |-> s]

IntCell(n) == [type |-> "int", int |-> n, str |-> <<>>]

Digit(d) ==
    CASE d = 0 -> "0" [] d = 1 -> "1" [] d = 2 -> "2" [] d = 3 -> "3"
      [] d = 4 -> "4" [] d = 5 -> "5" [] d = 6 -> "6" [] d = 7 -> "7"
      [] d = 8 -> "8" [] d = 9 -> "9"

RECURSIVE Decimal(_)
Decimal(n) ==
    IF n < 0 THEN <<"-">> \o Decimal(0 - n)
    ELSE IF n < 10 THEN <<Digit(n)>>
    ELSE Decimal(n \div 10) \o <<Digit(n % 10)>>

str(x) == IF x.type = "int" THEN Decimal(x.int) ELSE x.str

RECURSIVE load_rows(_, _, _)

\* load_rows without the setdefault for the destination: a node with no
\* outgoing edge gets no entry.
load_rows_noleaf(rows, i, g) ==
    IF i > Len(rows) THEN g
    ELSE LET src == str(rows[i][1])
             dst == str(rows[i][2])
         IN  load_rows(rows, i + 1,
                       DictSet(g, src, Append(DictGet(g, src, <<>>), dst)))

load_rows(rows, i, g) ==
    IF i > Len(rows) THEN g
    ELSE LET src == str(rows[i][1])
             dst == str(rows[i][2])
             g1  == DictSet(g, src, Append(DictGet(g, src, <<>>), dst))
             g2  == IF DictHas(g1, dst) THEN g1 ELSE DictSet(g1, dst, <<>>)
         IN  load_rows(rows, i + 1, g2)

load_graph_from_edges(rows) == load_rows(rows, 1, EmptyDict)

\* ------------------------------------------------------------ find_paths
NoPaths == [paths |-> <<>>, warns |-> <<>>]

RECURSIVE collect(_, _, _, _)

\* collect without the max_paths test: every new path is appended.
collect_nolimit(acc, new_paths, j, maxp) ==
    IF j > Len(new_paths) THEN [paths |-> acc, hit |-> FALSE]
    ELSE collect(Append(acc, new_paths[j]), new_paths, j + 1, maxp)

\* collect with `len(paths) > max_paths` in place of `>=`.
collect_strict(acc, new_paths, j, maxp) ==
    IF j > Len(new_paths) THEN [paths |-> acc, hit |-> FALSE]
    ELSE LET acc2 == Append(acc, new_paths[j])
         IN  IF Len(acc2) > maxp THEN [paths |-> acc2, hit |-> TRUE]
             ELSE collect(acc2, new_paths, j + 1, maxp)

collect(acc, new_paths, j, maxp) ==
    IF j > Len(new_paths) THEN [paths |-> acc, hit |-> FALSE]
    ELSE LET acc2 == Append(acc, new_paths[j])
         IN  IF Len(acc2) >= maxp THEN [paths |-> acc2, hit |-> TRUE]
             ELSE collect(acc2, new_paths, j + 1, maxp)

RECURSIVE find_paths(_, _, _, _, _, _)
RECURSIVE visit_neighbors(_, _, _, _, _, _, _, _, _)

\* visit_neighbors without the `node not in path` test.
visit_neighbors_revisit(g, s, e, path, maxlen, maxp, i, acc, warns) ==
    IF i > Len(g.val[s]) THEN [paths |-> acc, warns |-> warns]
    ELSE LET sub == find_paths(g, g.val[s][i], e, path, maxlen, maxp)
             c   == collect(acc, sub.paths, 1, maxp)
             w   == warns \o sub.warns
         IN  IF c.hit
             THEN [paths |-> c.paths, warns |-> Append(w, <<s, e>>)]
             ELSE visit_neighbors(g, s, e, path, maxlen, maxp, i + 1, c.paths, w)

\* visit_neighbors over the set of neighbours: a repeated neighbour (a
\* parallel edge) is followed once.
visit_neighbors_dedup(g, s, e, path, maxlen, maxp, i, acc, warns) ==
    IF i > Len(g.val[s]) THEN [paths |-> acc, warns |-> warns]
    ELSE LET node == g.val[s][i]
         IN  IF SeqHas(path, node) \/ (\E k \in 1..(i - 1) : g.val[s][k] = node)
             THEN visit_neighbors(g, s, e, path, maxlen, maxp, i + 1, acc, warns)
             ELSE LET sub == find_paths(g, node, e, path, maxlen, maxp)
                      c   == collect(acc, sub.paths, 1, maxp)
                      w   == warns \o sub.warns
                  IN  IF c.hit
                      THEN [paths |-> c.paths, warns |-> Append(w, <<s, e>>)]
                      ELSE visit_neighbors(g, s, e, path, maxlen, maxp,
                                           i + 1, c.paths, w)

\* visit_neighbors with `break` in place of `return paths` at the limit:
\* the inner loop stops, the loop over the neighbours goes on.
visit_neighbors_break(g, s, e, path, maxlen, maxp, i, acc, warns) ==
    IF i > Len(g.val[s]) THEN [paths |-> acc, warns |-> warns]
    ELSE LET node == g.val[s][i]
         IN  IF SeqHas(path, node)
             THEN visit_neighbors(g, s, e, path, maxlen, maxp, i + 1, acc, warns)
             ELSE LET sub == find_paths(g, node, e, path, maxlen, maxp)
                      c   == collect(acc, sub.paths, 1, maxp)
                      w   == warns \o sub.warns
                  IN  visit_neighbors(g, s, e, path, maxlen, maxp, i + 1, c.paths,
                                      IF c.hit THEN Append(w, <<s, e>>) ELSE w)

visit_neighbors(g, s, e, path, maxlen, maxp, i, acc, warns) ==
    IF i > Len(g.val[s]) THEN [paths |-> acc, warns |-> warns]
    ELSE LET node == g.val[s][i]
         IN  IF SeqHas(path, node)
             THEN visit_neighbors(g, s, e, path, maxlen, maxp, i + 1, acc, warns)
             ELSE LET sub == find_paths(g, node, e, path, maxlen, maxp)
                      c   == collect(acc, sub.paths, 1, maxp)
                      w   == warns \o sub.warns
                  IN  IF c.hit
                      THEN [paths |-> c.paths, warns |-> Append(w, <<s, e>>)]
                      ELSE visit_neighbors(g, s, e, path, maxlen, maxp,
                                           i + 1, c.paths, w)

\* find_paths with `len(path) > max_path_length` in place of `>=`.
find_paths_offbyone(g, s, e, path0, maxlen, maxp) ==
    IF Len(path0) > maxlen THEN NoPaths
    ELSE LET path == Append(path0, s)
         IN  IF s = e THEN [paths |-> <<path>>, warns |-> <<>>]
             ELSE IF ~DictHas(g, s) THEN NoPaths
             ELSE visit_neighbors(g, s, e, path, maxlen, maxp, 1, <<>>, <<>>)

find_paths(g, s, e, path0, maxlen, maxp) ==
    IF Len(path0) >= maxlen THEN NoPaths
    ELSE LET path == Append(path0, s)
         IN  IF s = e THEN [paths |-> <<path>>, warns |-> <<>>]
             ELSE IF ~DictHas(g, s) THEN NoPaths
             ELSE visit_neighbors(g, s, e, path, maxlen, maxp, 1, <<>>, <<>>)

\* -------------------------------------- find_all_paths_between_all_pairs
RECURSIVE all_pairs(_, _, _, _, _, _, _)
all_pairs(g, maxlen, maxp, i, j, acc, warns) ==
    LET nodes == g.keys
    IN  IF i > Len(nodes) THEN [paths |-> acc, warns |-> warns]
        ELSE IF j > Len(nodes) THEN all_pairs(g, maxlen, maxp, i + 1, 1, acc, warns)
        ELSE IF nodes[i] = nodes[j]
             THEN all_pairs(g, maxlen, maxp, i, j + 1, acc, warns)
             ELSE LET r == find_paths(g, nodes[i], nodes[j], <<>>, maxlen, maxp)
                  IN  all_pairs(g, maxlen, maxp, i, j + 1,
                                acc \o r.paths, warns \o r.warns)

find_all_paths_between_all_pairs(g, maxlen, maxp) ==
    LET r == all_pairs(g, maxlen, maxp, 1, 1, <<>>, <<>>)
    IN  IF Len(r.paths) > VolumeThreshold
        THEN [paths |-> r.paths, warns |-> Append(r.warns, <<<<"volume">>>>)]
        ELSE r


\* ------------------------------------------------------- str join / split
RECURSIVE join_from(_, _, _)
join_from(sep, parts, i) ==
    IF i > Len(parts) THEN <<>>
    ELSE IF i = Len(parts) THEN parts[i]
    ELSE parts[i] \o sep \o join_from(sep, parts, i + 1)

join(sep, parts) == join_from(sep, parts, 1)

StartsAt(s, i, sep) ==
    /\ i + Len(sep) - 1 <= Len(s)
    /\ \A k \in 1..Len(sep) : s[i + k - 1] = sep[k]

RECURSIVE split_from(_, _, _, _)
split_from(s, sep, i, cur) ==
    IF i > Len(s) THEN <<cur>>
    ELSE IF StartsAt(s, i, sep)
         THEN <<cur>> \o split_from(s, sep, i + Len(sep), <<>>)
         ELSE split_from(s, sep, i + 1, Append(cur, s[i]))

split(s, sep) == split_from(s, sep, 1, <<>>)

Ord(c) ==
    CASE c = " " -> 32
      [] c = "-" -> 45
      [] c = "1" -> 49
      [] c = "2" -> 50
      [] c = "3" -> 51
      [] c = ">" -> 62
      [] c = "a" -> 97

RECURSIVE StrLess(_, _)
StrLess(a, b) ==
    IF Len(b) = 0 THEN FALSE
    ELSE IF Len(a) = 0 THEN TRUE
    ELSE IF a[1] # b[1] THEN Ord(a[1]) < Ord(b[1])
    ELSE StrLess(Tail(a), Tail(b))

RECURSIVE sorted(_)
sorted(S) ==
    IF S = {} THEN <<>>
    ELSE LET m == CHOOSE x \in S : \A y \in S \ {x} : StrLess(x, y)
         IN  <<m>> \o sorted(S \ {m})

\* ------------------------------------------------ count_path_repetitions
RECURSIVE count_paths_loop(_, _, _)
count_paths_loop(ps, i, reps) ==
    IF i > Len(ps) THEN reps
    ELSE LET path_str == join(Delimiter, ps[i])
         IN  count_paths_loop(ps, i + 1,
                              DictSet(reps, path_str, DictGet(reps, path_str, 0) + 1))

count_path_repetitions(ps) == count_paths_loop(ps, 1, EmptyDict)

\* ------------------------------------------------ count_edge_repetitions
_format_path_as_edges(path) == [i \in 1..(Len(path) - 1) |-> <<path[i], path[i + 1]>>]

RECURSIVE add_edges(_, _, _, _)
add_edges(es, k, repetitions, reps) ==
    IF k > Len(es) THEN reps
    ELSE add_edges(es, k + 1, repetitions,
                   DictSet(reps, es[k], DictGet(reps, es[k], 0) + repetitions))

RECURSIVE count_edges_loop(_, _, _)
count_edges_loop(path_reps, i, reps) ==
    IF i > Len(path_reps.keys) THEN reps
    ELSE LET path_str == path_reps.keys[i]
             nodes    == split(path_str, Delimiter)
             es       == [k \in 1..(Len(nodes) - 1) |-> <<nodes[k], nodes[k + 1]>>]
         IN  count_edges_loop(path_reps, i + 1,
                              add_edges(es, 1, path_reps.val[path_str], reps))

count_edge_repetitions(path_reps) == count_edges_loop(path_reps, 1, EmptyDict)

\* --------------------------------------------- build_od_incidence_matrix
SeqRange(s) == {s[i] : i \in 1..Len(s)}

RECURSIVE od_to_edges_loop(_, _, _)
od_to_edges_loop(ps, i, d) ==
    IF i > Len(ps) THEN d
    ELSE IF Len(ps[i]) < 2 THEN od_to_edges_loop(ps, i + 1, d)
    ELSE LET path == ps[i]
             od   == <<path[1], path[Len(path)]>>
             es   == SeqRange(_format_path_as_edges(path))
         IN  od_to_edges_loop(ps, i + 1, DictSet(d, od, DictGet(d, od, {}) \cup es))

PairKey(p) == p[1] \o Arrow \o p[2]

SumColumn == <<"S", "U", "M">>

RECURSIVE row_sum(_, _, _, _)
row_sum(cell, ek, cols, j) ==
    IF j > Len(cols) THEN 0
    ELSE cell[<<ek, cols[j]>>] + row_sum(cell, ek, cols, j + 1)

build_od_incidence_matrix(ps) ==
    LET od_to_edges == od_to_edges_loop(ps, 1, EmptyDict)
        ods         == DOMAIN od_to_edges.val
        od_keys     == {PairKey(od) : od \in ods}
        edge_keys   == UNION {{PairKey(e) : e \in od_to_edges.val[od]} : od \in ods}
        edge_list   == sorted(edge_keys)
        od_list     == sorted(od_keys)
        cell        == [c \in edge_keys \X od_keys |->
                          IF \E od \in ods :
                                /\ PairKey(od) = c[2]
                                /\ \E e \in od_to_edges.val[od] : PairKey(e) = c[1]
                          THEN 1 ELSE 0]
    IN  [index   |-> edge_list,
         columns |-> Append(od_list, SumColumn),
         cell    |-> cell,
         SUM     |-> [ek \in edge_keys |-> row_sum(cell, ek, od_list, 1)]]

EmptyMatrix == [index |-> <<>>, columns |-> <<>>, cell |-> <<>>, SUM |-> <<>>]

\* --------------------------------------------------------- build_digraph
RECURSIVE add_targets(_, _, _, _)
add_targets(src, targets, k, G) ==
    IF k > Len(targets) THEN G
    ELSE LET dst == targets[k]
             n1  == IF SeqHas(G.nodes, src) THEN G.nodes ELSE Append(G.nodes, src)
             n2  == IF SeqHas(n1, dst) THEN n1 ELSE Append(n1, dst)
         IN  add_targets(src, targets, k + 1,
                         [nodes |-> n2, edges |-> Append(G.edges, <<src, dst>>)])

RECURSIVE add_all_edges(_, _, _)
add_all_edges(g, i, G) ==
    IF i > Len(g.keys) THEN G
    ELSE add_all_edges(g, i + 1, add_targets(g.keys[i], g.val[g.keys[i]], 1, G))

build_digraph(g) == add_all_edges(g, 1, [nodes |-> g.keys, edges |-> <<>>])

EmptyDiGraph == [nodes |-> <<>>, edges |-> <<>>]

\* ------------------------------------------------------- analyze_network
\* The graph argument is any Python object: a dict (kind "dict", with its
\* keys and mapping) or another object, of which only the truth value and
\* the type matter to the validation.
DictArg(g) == [kind |-> "dict", truthy |-> Len(g.keys) > 0, dict |-> g]

NonDictArgs ==
    {[kind |-> k, truthy |-> t, dict |-> EmptyDict] : k \in {"str", "list"}, t \in BOOLEAN}

NoResult(err) ==
    [error |-> err, enumerated |-> FALSE, all_paths |-> <<>>, warns |-> <<>>,
     path_repetitions |-> EmptyDict, edge_repetitions |-> EmptyDict,
     od_incidence |-> EmptyMatrix, graph |-> EmptyDiGraph]

\* analyze_network without the isinstance test: a non-dict object reaches
\* graph.keys() in the enumeration.
analyze_network_nocheck(a, maxlen, maxp) ==
    IF ~a.truthy THEN NoResult("ValueError")
    ELSE IF a.kind # "dict" THEN NoResult("AttributeError")
    ELSE LET found     == find_all_paths_between_all_pairs(a.dict, maxlen, maxp)
             path_reps == count_path_repetitions(found.paths)
             edge_reps == count_edge_repetitions(path_reps)
         IN  [error |-> "none", enumerated |-> TRUE,
              all_paths |-> found.paths, warns |-> found.warns,
              path_repetitions |-> path_reps, edge_repetitions |-> edge_reps,
              od_incidence |-> build_od_incidence_matrix(found.paths),
              graph |-> build_digraph(a.dict)]

analyze_network(a, maxlen, maxp) ==
    IF ~a.truthy THEN NoResult("ValueError")
    ELSE IF a.kind # "dict" THEN NoResult("ValueError")
    ELSE LET found     == find_all_paths_between_all_pairs(a.dict, maxlen, maxp)
             path_reps == count_path_repetitions(found.paths)
             edge_reps == count_edge_repetitions(path_reps)
         IN  [error |-> "none", enumerated |-> TRUE,
              all_paths |-> found.paths, warns |-> found.warns,
              path_repetitions |-> path_reps, edge_repetitions |-> edge_reps,
              od_incidence |-> build_od_incidence_matrix(found.paths),
              graph |-> build_digraph(a.dict)]

\* ---------------------------------------------------------------- state
EdgeRows == {<<StrCell(u), StrCell(v)>> : u \in GraphNodes, v \in GraphNodes}

RawCells == {StrCell(N1), StrCell(N2), IntCell(1), IntCell(12)}

RawRows == RawCells \X RawCells

RECURSIVE SeqsUpTo(_, _)
SeqsUpTo(S, n) ==
    IF n = 0 THEN {<<>>}
    ELSE LET shorter == SeqsUpTo(S, n - 1)
         IN  shorter \cup {Append(q, x) : q \in {t \in shorter : Len(t) = n - 1}, x \in S}

InputPaths == SeqsUpTo(PathNodes, MaxPathNodes) \ {<<>>}

Blank ==
    /\ graph = EmptyDict
    /\ start = <<>>
    /\ end = <<>>
    /\ max_path_length = 0
    /\ max_paths = 0
    /\ paths = <<>>
    /\ warnings = <<>>
    /\ arg = DictArg(EmptyDict)
    /\ error = "none"
    /\ enumerated = FALSE
    /\ path_repetitions = EmptyDict
    /\ edge_repetitions = EmptyDict
    /\ od_incidence = EmptyMatrix
    /\ di_graph = EmptyDiGraph

\* A run starts from an edge list (the rows of the CSV file).
Init ==
    /\ pc = "input"
    /\ edges \in SeqsUpTo(EdgeRows, MaxEdges)
    /\ all_paths = <<>>
    /\ Blank

LoadGraph ==
    /\ pc = "input"
    /\ pc' = "loaded"
    /\ graph' = load_graph_from_edges(edges)
    /\ UNCHANGED <<edges, start, end, max_path_length, max_paths, paths,
                   warnings, arg, error, enumerated, all_paths,
                   path_repetitions, edge_repetitions, od_incidence, di_graph>>

FindPaths ==
    /\ pc = "loaded"
    /\ \E s \in GraphNodes, e \in GraphNodes, ml \in 1..MaxLen, mp \in 1..MaxPaths :
         \E r \in {find_paths(graph, s, e, <<>>, ml, mp)} :
             /\ start' = s
             /\ end' = e
             /\ max_path_length' = ml
             /\ max_paths' = mp
             /\ paths' = r.paths
             /\ warnings' = r.warns
    /\ pc' = "found"
    /\ UNCHANGED <<edges, graph, arg, error, enumerated, all_paths,
                   path_repetitions, edge_repetitions, od_incidence, di_graph>>

FindAllPaths ==
    /\ pc = "loaded"
    /\ \E ml \in 1..MaxLen, mp \in 1..MaxPaths :
         \E r \in {find_all_paths_between_all_pairs(graph, ml, mp)} :
             /\ max_path_length' = ml
             /\ max_paths' = mp
             /\ all_paths' = r.paths
             /\ warnings' = r.warns
    /\ pc' = "all_found"
    /\ UNCHANGED <<edges, graph, start, end, paths, arg, error, enumerated,
                   path_repetitions, edge_repetitions, od_incidence, di_graph>>

AnalyzeNetwork ==
    /\ pc = "loaded"
    /\ \E a \in {DictArg(graph)} \cup NonDictArgs, ml \in 1..MaxLen, mp \in 1..MaxPaths :
         \E r \in {analyze_network(a, ml, mp)} :
             /\ arg' = a
             /\ max_path_length' = ml
             /\ max_paths' = mp
             /\ error' = r.error
             /\ enumerated' = r.enumerated
             /\ all_paths' = r.all_paths
             /\ warnings' = r.warns
             /\ path_repetitions' = r.path_repetitions
             /\ edge_repetitions' = r.edge_repetitions
             /\ od_incidence' = r.od_incidence
             /\ di_graph' = r.graph
    /\ pc' = "analyzed"
    /\ UNCHANGED <<edges, graph, start, end, paths>>

Next == LoadGraph \/ FindPaths \/ FindAllPaths \/ AnalyzeNetwork

Spec == Init /\ [][Next]_vars

\* The aggregation functions are public and take any list of paths.
InitAgg ==
    /\ pc = "paths"
    /\ edges = <<>>
    /\ all_paths \in SeqsUpTo(InputPaths, MaxPathCount)
    /\ Blank

CountPaths ==
    /\ pc = "paths"
    /\ pc' = "path_counted"
    /\ path_repetitions' = count_path_repetitions(all_paths)
    /\ UNCHANGED <<edges, graph, start, end, max_path_length, max_paths, paths,
                   warnings, arg, error, enumerated, all_paths,
                   edge_repetitions, od_incidence, di_graph>>

CountEdges ==
    /\ pc = "path_counted"
    /\ pc' = "edge_counted"
    /\ edge_repetitions' = count_edge_repetitions(path_repetitions)
    /\ UNCHANGED <<edges, graph, start, end, max_path_length, max_paths, paths,
                   warnings, arg, error, enumerated, all_paths,
                   path_repetitions, od_incidence, di_graph>>

BuildIncidence ==
    /\ pc = "paths"
    /\ pc' = "incidence"
    /\ od_incidence' = build_od_incidence_matrix(all_paths)
    /\ UNCHANGED <<edges, graph, start, end, max_path_length, max_paths, paths,
                   warnings, arg, error, enumerated, all_paths,
                   path_repetitions, edge_repetitions, di_graph>>

\* The loader alone, on rows whose cells are strings or integers.
InitLoad ==
    /\ pc = "input"
    /\ edges \in SeqsUpTo(RawRows, MaxEdges)
    /\ all_paths = <<>>
    /\ Blank

NextLoad == LoadGraph

SpecLoad == InitLoad /\ [][NextLoad]_vars

NextAgg == CountPaths \/ CountEdges \/ BuildIncidence

SpecAgg == InitAgg /\ [][NextAgg]_vars

\* ================================================================ claims
Count(x, seq) == Cardinality({i \in 1..Len(seq) : seq[i] = x})

IsSimple(p) == \A i, j \in 1..Len(p) : p[i] = p[j] => i = j

HasEdge(g, u, v) == DictHas(g, u) /\ SeqHas(g.val[u], v)

\* What the same call returns when max_paths is larger than any path count.
UnlimitedPaths ==
    find_paths(graph, start, end, <<>>, max_path_length, DefaultMaxPaths).paths

\* What the same call returns with neither limit in the way: no simple
\* path has more nodes than the graph.
FullLengthPaths ==
    find_paths(graph, start, end, <<>>, Cardinality(GraphNodes) + 1, DefaultMaxPaths).paths

\* Some path of the unlimited result is missing from the result.
Truncated ==
    \E i \in 1..Len(UnlimitedPaths) :
        Count(UnlimitedPaths[i], UnlimitedPaths) > Count(UnlimitedPaths[i], paths)

Warned == warnings # <<>>

\* C1: find_paths returns at most max_paths paths.
C1_AtMostMaxPaths == pc = "found" => Len(paths) <= max_paths

C1_Witness ==
    /\ pc = "found"
    /\ Len(paths) = max_paths
    /\ Len(UnlimitedPaths) > max_paths

\* C2 (as claimed): the warning is emitted if and only if a path of the
\* unlimited result is missing, and never when fewer than max_paths paths
\* are returned.
C2_WarnIffTruncated ==
    pc = "found" =>
        /\ Warned <=> Truncated
        /\ Len(paths) < max_paths => ~Warned

\* C2 (amended): truncation implies the warning, the warning implies that
\* exactly max_paths paths were returned, and for start # end the warning
\* is emitted if and only if max_paths paths were returned, also when
\* nothing is missing.
C2_WarnIffLimitReached ==
    pc = "found" =>
        /\ Truncated => Warned
        /\ Warned => Len(paths) = max_paths
        /\ (start # end /\ Len(paths) = max_paths) => Warned

C2_Witness ==
    /\ pc = "found"
    /\ Warned
    /\ ~Truncated
    /\ Len(paths) = max_paths

\* C3: every returned path begins with start, ends with end, follows an
\* edge of the graph at each step and has no repeated node.
C3_SimplePaths ==
    pc = "found" =>
        \A i \in 1..Len(paths) :
            LET p == paths[i]
            IN  /\ Len(p) >= 1
                /\ p[1] = start
                /\ p[Len(p)] = end
                /\ \A k \in 1..(Len(p) - 1) : HasEdge(graph, p[k], p[k + 1])
                /\ IsSimple(p)

\* A three-node path is returned from a graph with an edge leading back
\* into the path (a cycle or a self-loop).
C3_Witness ==
    /\ pc = "found"
    /\ \E i \in 1..Len(paths) :
          /\ Len(paths[i]) = 3
          /\ \E k \in 1..3, j \in 1..3 :
                j <= k /\ HasEdge(graph, paths[i][k], paths[i][j])

\* C4: no returned path has more than max_path_length nodes; the longer
\* paths are dropped and nothing else, without a warning.
C4_LengthBound ==
    pc = "found" =>
        /\ \A i \in 1..Len(paths) : Len(paths[i]) <= max_path_length
        /\ Len(paths) < max_paths =>
              /\ paths = SelectSeq(FullLengthPaths,
                                   LAMBDA p : Len(p) <= max_path_length)
              /\ ~Warned

\* The chain case: the only path is too long, the result is empty.
C4_Witness ==
    /\ pc = "found"
    /\ paths = <<>>
    /\ ~Warned
    /\ Len(FullLengthPaths) = 1
    /\ Len(FullLengthPaths[1]) = max_path_length + 1

Mult(u, v) == IF DictHas(graph, u) THEN Count(v, graph.val[u]) ELSE 0

RECURSIVE PathMult(_, _)
PathMult(p, k) ==
    IF k >= Len(p) THEN 1 ELSE Mult(p[k], p[k + 1]) * PathMult(p, k + 1)

SimpleSeqs ==
    {p \in SeqsUpTo(GraphNodes, Cardinality(GraphNodes)) : Len(p) >= 1 /\ IsSimple(p)}

ParallelExample ==
    [keys |-> <<N1, N2, N3>>,
     val  |-> [n \in GraphNodes |->
                 IF n = N1 THEN <<N2, N2>> ELSE IF n = N2 THEN <<N3>> ELSE <<>>]]

\* C5: below the max_paths limit and for start # end, find_paths returns
\* exactly the simple node sequences from start to end of at most
\* max_path_length nodes, each as often as the product of its edges'
\* multiplicities; with edges 1->2, 1->2, 2->3 analyze_network counts 4
\* uses of (1,2) and 3 of (2,3).
C5_CompleteWithMultiplicity ==
    /\ (pc = "found" /\ start # end /\ Len(paths) < max_paths) =>
          /\ \A i \in 1..Len(paths) : paths[i] \in SimpleSeqs
          /\ \A p \in SimpleSeqs :
                Count(p, paths) =
                    IF p[1] = start /\ p[Len(p)] = end /\ Len(p) <= max_path_length
                    THEN PathMult(p, 1) ELSE 0
    /\ (/\ pc = "analyzed"
        /\ arg = DictArg(ParallelExample)
        /\ max_path_length >= 3
        /\ max_paths >= 3) =>
          /\ DictGet(edge_repetitions, <<N1, N2>>, 0) = 4
          /\ DictGet(edge_repetitions, <<N2, N3>>, 0) = 3

\* A three-node path over a doubled edge is returned twice.
C5_Witness ==
    /\ pc = "found"
    /\ start # end
    /\ Len(paths) = 2
    /\ max_paths > 2
    /\ paths[1] = paths[2]
    /\ Len(paths[1]) = 3

\* C6 (as claimed): a start node without an entry in the graph gives the
\* empty list, for every end node.
C6_MissingStartEmpty ==
    (pc = "found" /\ ~DictHas(graph, start)) => paths = <<>>

\* C10: analyze_network fails with ValueError, before any enumeration and
\* without a result, when the argument is an empty dict or not a dict;
\* for a non-empty dict it raises nothing and returns the bundle.
C10_Validation ==
    pc = "analyzed" =>
        IF arg.kind # "dict" \/ Len(arg.dict.keys) = 0
        THEN /\ error = "ValueError"
             /\ ~enumerated
             /\ all_paths = <<>>
             /\ warnings = <<>>
             /\ od_incidence = EmptyMatrix
             /\ di_graph = EmptyDiGraph
        ELSE /\ error = "none"
             /\ enumerated
             /\ di_graph.nodes = arg.dict.keys
             /\ path_repetitions = count_path_repetitions(all_paths)

C10_Witness ==
    /\ pc = "analyzed"
    /\ arg.kind = "str"
    /\ arg.truthy
    /\ error = "ValueError"
    /\ ~enumerated

\* The consecutive pairs of a path, and of the supplied list of paths.
PathHasEdge(p, e) == \E k \in 1..(Len(p) - 1) : <<p[k], p[k + 1]>> = e

SuppliedEdges ==
    UNION {SeqRange(_format_path_as_edges(all_paths[i])) : i \in 1..Len(all_paths)}

SuppliedODs ==
    {<<all_paths[i][1], all_paths[i][Len(all_paths[i])]>> :
        i \in {j \in 1..Len(all_paths) : Len(all_paths[j]) >= 2}}

\* The number of positions at which e occurs as a consecutive pair.
DirectCount(e) ==
    Cardinality({ik \in UNION {{<<i, k>> : k \in 1..(Len(all_paths[i]) - 1)} :
                                  i \in 1..Len(all_paths)} :
                    <<all_paths[ik[1]][ik[2]], all_paths[ik[1]][ik[2] + 1]>> = e})

\* Some supplied path of that OD pair contains the edge.
Serves(od, e) ==
    \E i \in 1..Len(all_paths) :
        /\ Len(all_paths[i]) >= 2
        /\ <<all_paths[i][1], all_paths[i][Len(all_paths[i])]>> = od
        /\ PathHasEdge(all_paths[i], e)

\* C7 (as claimed): split inverts join on every path, distinct paths get
\* distinct keys, and the edge counts derived from the path counts equal
\* the direct counts of consecutive pairs.
C7_RoundTripCounts ==
    pc = "edge_counted" =>
        /\ \A i \in 1..Len(all_paths) :
              split(join(Delimiter, all_paths[i]), Delimiter) = all_paths[i]
        /\ Len(path_repetitions.keys) = Cardinality(SeqRange(all_paths))
        /\ \A e \in SuppliedEdges \cup DOMAIN edge_repetitions.val :
              DictGet(edge_repetitions, e, 0) = DirectCount(e)

\* C8 (as claimed): the rows are the supplied edges, the columns the
\* supplied OD pairs, and a cell is 1 exactly when a path of that OD pair
\* contains that edge.
C8_IncidenceCells ==
    pc = "incidence" =>
        /\ Len(od_incidence.index) = Cardinality(SuppliedEdges)
        /\ SeqRange(od_incidence.index) = {PairKey(e) : e \in SuppliedEdges}
        /\ Len(od_incidence.columns) = Cardinality(SuppliedODs) + 1
        /\ SeqRange(od_incidence.columns) =
              {PairKey(od) : od \in SuppliedODs} \cup {SumColumn}
        /\ \A e \in SuppliedEdges, od \in SuppliedODs :
              od_incidence.cell[<<PairKey(e), PairKey(od)>>] =
                  IF Serves(od, e) THEN 1 ELSE 0

\* C9 (as claimed): the SUM of an edge's row is the number of distinct OD
\* pairs with a path containing that edge; after analyze_network it lies
\* between 1 and the edge's usage count.
C9_SumIsServedODs ==
    /\ pc = "incidence" =>
          \A e \in SuppliedEdges :
              od_incidence.SUM[PairKey(e)] =
                  Cardinality({od \in SuppliedODs : Serves(od, e)})
    /\ (pc = "analyzed" /\ error = "none") =>
          \A e \in SuppliedEdges :
              /\ od_incidence.SUM[PairKey(e)] >= 1
              /\ od_incidence.SUM[PairKey(e)] <= DictGet(edge_repetitions, e, 0)

\* The nodes of the edge list, and the destinations of the rows of source u
\* in input order.
RowNodes ==
    {str(edges[i][1]) : i \in 1..Len(edges)} \cup {str(edges[i][2]) : i \in 1..Len(edges)}

RECURSIVE DestsFrom(_, _)
DestsFrom(u, i) ==
    IF i > Len(edges) THEN <<>>
    ELSE IF str(edges[i][1]) = u THEN <<str(edges[i][2])>> \o DestsFrom(u, i + 1)
    ELSE DestsFrom(u, i + 1)

\* C11: the loaded graph has one key per node that occurs as a source or a
\* destination, and graph[u] is the sequence of the destinations of the
\* rows of source u, in input order, duplicates kept (empty for a leaf).
C11_LoadedGraph ==
    pc = "loaded" =>
        /\ DOMAIN graph.val = RowNodes
        /\ SeqRange(graph.keys) = RowNodes
        /\ Len(graph.keys) = Cardinality(RowNodes)
        /\ \A u \in RowNodes : graph.val[u] = DestsFrom(u, 1)

\* Two rows of the same edge, one written with integers and one with
\* strings, give a doubled neighbour, and the destination is a leaf.
C11_Witness ==
    /\ pc = "loaded"
    /\ \E i, j \in 1..Len(edges) :
          /\ edges[i][1].type = "int"
          /\ edges[j][1].type = "str"
    /\ \E u \in RowNodes : Len(graph.val[u]) >= 2 /\ graph.val[u][1] = graph.val[u][2]
    /\ \E u \in RowNodes : graph.val[u] = <<>>

\* The first min(m, N) elements of a list of length N.
Prefix(seq, m) == SubSeq(seq, 1, IF m < Len(seq) THEN m ELSE Len(seq))

\* The unlimited result for one ordered pair, under the call's length limit.
UnlimitedFor(u, v) ==
    find_paths(graph, u, v, <<>>, max_path_length, DefaultMaxPaths).paths

\* The per-pair prefixes over the ordered pairs of keys, in key order; k
\* numbers the pairs row by row.
RECURSIVE PerPairPrefixes(_)
PerPairPrefixes(k) ==
    LET n == Len(graph.keys)
    IN  IF k > n * n THEN <<>>
        ELSE LET u == graph.keys[((k - 1) \div n) + 1]
                 v == graph.keys[((k - 1) % n) + 1]
             IN  (IF u = v THEN <<>> ELSE Prefix(UnlimitedFor(u, v), max_paths))
                     \o PerPairPrefixes(k + 1)

\* C12: the list returned by find_paths is the first min(max_paths, N)
\* elements of the unlimited result, and the output of
\* find_all_paths_between_all_pairs is the concatenation of these prefixes
\* over the ordered pairs of distinct keys, in key order.
C12_PrefixOfUnlimited ==
    /\ pc = "found" => paths = Prefix(UnlimitedPaths, max_paths)
    /\ pc = "all_found" => all_paths = PerPairPrefixes(1)

\* The limit is hit in an inner frame and again in the outer one, and
\* paths are cut off.
C12_Witness ==
    /\ pc = "found"
    /\ Len(warnings) >= 2
    /\ Len(paths) >= 1
    /\ Len(UnlimitedPaths) > Len(paths)

====
